---- MODULE Spec2Model ----
(***************************************************************************)
(* Model of the evolutionary root finder of src/main.rs: Population::new,  *)
(* the two selections (elitism, tournament), the rearrangements (genocide, *)
(* random_predation) and the loop of Population::run.                      *)
(*                                                                         *)
(* Numbers.  An f64 individual is a point of an integer grid whose step is *)
(* the amplitude of one mutation (MUTATION_INTERVAL * MUTATION_RATE).  A   *)
(* random draw is a choice among the grid points of the drawn interval.    *)
(* The spawn interval and the roots of the objective are scaled to that    *)
(* grid, so that convergence, stagnation and genocide all happen within a  *)
(* few generations.  On the grid a fitness below FITNESS_TOLERANCE is a    *)
(* fitness of 0 and a difference below BEST_DELTA is a difference of 0.    *)
(*                                                                         *)
(* Vec<f64> is a sequence; the source's 0-based index i is element i + 1.  *)
(* Option<f64> is <<>> (None) or <<v>> (Some(v)).                          *)
(***************************************************************************)
EXTENDS Integers, Sequences, FiniteSets

\* ------------------------------------------------------------------ bounds

\* Number of individuals (POPULATION_SIZE is 100 in the source).
POPULATION_SIZE == 3

\* Generation budget (MAX_GENERATIONS is 100_000 in the source).
MAX_GENERATIONS == 6

\* --------------------------------------------------------------- constants

FITNESS_TOLERANCE == 1

BEST_DELTA == 1

COUNTER_GENOCIDE == 5

\* The initial spawn interval start..end (half-open), in grid units.
INITIAL_INTERVAL == <<-4, 4>>

\* thread_rng().gen_range(MUTATION_INTERVAL) * MUTATION_RATE lies in
\* [-1, 1) grid units, that is in [-2, 2) half units.
MUTATION_INTERVAL == -2 .. 1

\* The multipliers m of genocide, gen_range(0.1..2.0), in halves: m = k / 2.
GENOCIDE_MULTIPLIERS == 1 .. 3

\* The experiments of main: the <<selection, rearrangement>> of each
\* Population::new.
Experiments ==
  {<<"Elitism", "None">>, <<"Tournament", "None">>, <<"Elitism", "RandomPredation">>,
   <<"Elitism", "Genocide">>, <<"Tournament", "Genocide">>}

None == <<>>

Some(v) == <<v>>

Abs(x) == IF x < 0 THEN -x ELSE x

\* ------------------------------------------------------------------- state

VARIABLES
  selection,      \* Population.selection
  rearrangement,  \* Population.rearrangement
  range,          \* Population.range, <<start, end>>
  ind,            \* Population.ind
  generation,     \* Population.generation
  global_best,    \* Population.global_best
  best,           \* Population.best
  last_best,      \* Population.last_best
  counter,        \* run's local counter
  pc,             \* position of run in its loop
  evals,          \* history: number of loop iterations begun
  pre,            \* history: the population before the last Select or Rearrange step of
                  \* the iteration in progress
  min_seen,       \* history: Some(the least fitness of the champions evaluated so far)
  hist,           \* history: the stagnation seen by the Genocide arm so far
  fired_at,       \* history: the iterations (values of evals) in which genocide ran
  call            \* the method called on a population outside run, with its outcome

vars == <<selection, rearrangement, range, ind, generation, global_best, best,
          last_best, counter, pc, evals, pre, min_seen, hist, fired_at, call>>

\* ---------------------------------------------------------- pure functions

\* fn function(x)
function(x) == (x - 1) * (x + 4) * (x - 12)

\* Population::fitness
fitness(x) == Abs(function(x))

\* Population::value: self.ind.get(index).unwrap()
value(pop, index) == pop[index + 1]

\* Population::set: *self.ind.get_mut(index).unwrap() = v
set(pop, index, v) == [pop EXCEPT ![index + 1] = v]

\* The grid points a gen_range(start..end) draw is taken from: the two lowest
\* points of the interval and one near its upper end.
Samples(r) == {x \in {r[1], r[1] + 1, r[2] - 2} : r[1] <= x /\ x < r[2]}

\* fn individual(): thread_rng().gen_range(INITIAL_INTERVAL)
individual == Samples(INITIAL_INTERVAL)

\* The draws d of the mutation noise (in half units) for which i + d / 2 is a
\* grid point, where i2 = 2 * i.
MutationDraws(i2) == {d \in MUTATION_INTERVAL : (i2 + d) % 2 = 0}

\* fn mutation(i), for i = i2 / 2 and the noise d / 2.
mutation(i2, d) == (i2 + d) \div 2

\* The loop of best_index with current <= best.
RECURSIVE best_scan_le(_, _, _, _)
best_scan_le(pop, i, b, index) ==
  IF i >= Len(pop) THEN index
  ELSE LET current == fitness(value(pop, i)) IN
       IF current <= b THEN best_scan_le(pop, i + 1, current, i)
       ELSE best_scan_le(pop, i + 1, b, index)

\* The loop of Population::best_index from position i on.
RECURSIVE best_scan(_, _, _, _)
best_scan(pop, i, b, index) ==
  IF i >= Len(pop) THEN index
  ELSE LET current == fitness(value(pop, i)) IN
       IF current < b THEN best_scan(pop, i + 1, current, i)
       ELSE best_scan(pop, i + 1, b, index)

\* Population::best_index
best_index(pop) == best_scan(pop, 0, fitness(value(pop, 0)), 0)

\* The loop of random_predation with current >= worst.
RECURSIVE worst_scan_ge(_, _, _, _)
worst_scan_ge(pop, i, worst, worst_index) ==
  IF i >= Len(pop) THEN worst_index
  ELSE LET current == fitness(value(pop, i)) IN
       IF current >= worst THEN worst_scan_ge(pop, i + 1, current, i)
       ELSE worst_scan_ge(pop, i + 1, worst, worst_index)

\* The loop of Population::random_predation from position i on.
RECURSIVE worst_scan(_, _, _, _)
worst_scan(pop, i, worst, worst_index) ==
  IF i >= Len(pop) THEN worst_index
  ELSE LET current == fitness(value(pop, i)) IN
       IF current > worst THEN worst_scan(pop, i + 1, current, i)
       ELSE worst_scan(pop, i + 1, worst, worst_index)

\* The worst_index random_predation computes.
worst_index(pop) == worst_scan(pop, 0, fitness(value(pop, 0)), 0)

\* A mini-tournament decided by <= in the place of <.
winner_le(x1, x2) == IF fitness(x1) <= fitness(x2) THEN x1 ELSE x2

\* The winner of one mini-tournament of Population::tournament.
winner(x1, x2) == IF fitness(x1) < fitness(x2) THEN x1 ELSE x2

\* ------------------------------------------------------------------- Init

\* Population::new with the loop bound off by one (0..=POPULATION_SIZE).
NewPopulations_inclusive == [1 .. POPULATION_SIZE + 1 -> individual]

\* No method has been called outside run.
NoCall == [op |-> "none"]

\* The populations Population::new can build.
NewPopulations == [1 .. POPULATION_SIZE -> individual]

Init ==
  /\ \E e \in Experiments : selection = e[1] /\ rearrangement = e[2]
  /\ range = INITIAL_INTERVAL
  /\ ind \in NewPopulations
  /\ generation = 0
  /\ global_best = None
  /\ best = None
  /\ last_best = None
  /\ counter = 0
  /\ pc = "Evaluate"
  /\ evals = 0
  /\ pre = <<>>
  /\ min_seen = None
  /\ hist = [streak |-> 0, fired |-> FALSE]
  /\ fired_at = <<>>
  /\ call = NoCall

\* ---------------------------------------------------------------- Evaluate

\* The match on self.global_best without the fitness comparison.
UpdateGlobal_always(global, b) == Some(b)

\* The match on self.global_best with the Some arm left empty.
UpdateGlobal_first(global, b) == IF global = None THEN Some(b) ELSE global

\* The global_best after the match of run on self.global_best.
UpdateGlobal(global, b) ==
  IF global = None THEN Some(b)
  ELSE IF fitness(b) < fitness(global[1]) THEN Some(b) ELSE global

\* The least fitness seen once a champion of fitness f is evaluated.
Least(seen, f) == IF seen = None \/ f < seen[1] THEN Some(f) ELSE seen

\* The head of the loop storing the new champion in last_best as well.
Evaluate_both ==
  /\ pc = "Evaluate"
  /\ LET b == value(ind, best_index(ind)) IN
       /\ last_best' = Some(b)
       /\ best' = Some(b)
       /\ global_best' = UpdateGlobal(global_best, b)
  /\ evals' = evals + 1
  /\ min_seen' = Least(min_seen, fitness(value(ind, best_index(ind))))
  /\ pc' = "Select"
  /\ UNCHANGED <<selection, rearrangement, range, ind, generation, counter,
                 pre, hist, fired_at, call>>

\* The head of the loop with the break right after global_best is updated.
Evaluate_break ==
  /\ pc = "Evaluate"
  /\ LET b == value(ind, best_index(ind)) IN
       /\ last_best' = best
       /\ best' = Some(b)
       /\ global_best' = UpdateGlobal(global_best, b)
       /\ pc' = IF \/ fitness(UpdateGlobal(global_best, b)[1]) < FITNESS_TOLERANCE
                   \/ generation > MAX_GENERATIONS
                THEN "Done" ELSE "Select"
  /\ evals' = evals + 1
  /\ min_seen' = Least(min_seen, fitness(value(ind, best_index(ind))))
  /\ UNCHANGED <<selection, rearrangement, range, ind, generation, counter,
                 pre, hist, fired_at, call>>

\* run, the head of the loop: best, last_best and global_best.
Evaluate ==
  /\ pc = "Evaluate"
  /\ LET b == value(ind, best_index(ind)) IN
       /\ last_best' = best
       /\ best' = Some(b)
       /\ global_best' = UpdateGlobal(global_best, b)
  /\ evals' = evals + 1
  /\ min_seen' = Least(min_seen, fitness(value(ind, best_index(ind))))
  /\ pc' = "Select"
  /\ UNCHANGED <<selection, rearrangement, range, ind, generation, counter,
                 pre, hist, fired_at, call>>

\* ------------------------------------------------------------------ Select

\* The sequences of length k whose element i is drawn from choices[i].
RECURSIVE Draws(_, _)
Draws(choices, k) ==
  IF k = 0 THEN {<<>>}
  ELSE {Append(p, c) : p \in Draws(choices, k - 1), c \in choices[k]}

\* elitism without the test i != best_index.
ElitismValues_all(pop, i, bi) ==
  LET s == value(pop, i) + value(pop, bi) IN
  {mutation(s, d) : d \in MutationDraws(s)}

\* The values elitism can store at index i, given the champion's index bi:
\* mutation((v + best) / 2.0) for every draw of the noise, or the champion.
ElitismValues(pop, i, bi) ==
  IF i # bi
  THEN LET s == value(pop, i) + value(pop, bi) IN
       {mutation(s, d) : d \in MutationDraws(s)}
  ELSE {value(pop, i)}

\* elitism without self.generation += 1.
elitism_noinc ==
  /\ pc = "Select"
  /\ selection = "Elitism"
  /\ LET bi == best_index(ind) IN
       ind' \in Draws([k \in 1 .. Len(ind) |-> ElitismValues(ind, k - 1, bi)], Len(ind))
  /\ pre' = ind
  /\ pc' = "Rearrange"
  /\ UNCHANGED <<selection, rearrangement, range, generation, global_best, best,
                 last_best, counter, evals, min_seen, hist, fired_at, call>>

\* Population::elitism
elitism ==
  /\ pc = "Select"
  /\ selection = "Elitism"
  /\ LET bi == best_index(ind) IN
       ind' \in Draws([k \in 1 .. Len(ind) |-> ElitismValues(ind, k - 1, bi)], Len(ind))
  /\ generation' = generation + 1
  /\ pre' = ind
  /\ pc' = "Rearrange"
  /\ UNCHANGED <<selection, rearrangement, range, global_best, best, last_best,
                 counter, evals, min_seen, hist, fired_at, call>>

\* A tournament that stores each child in self.ind as soon as it is computed:
\* a draw of an index already rewritten reads the child.
TournamentRead_inplace(pop, kids, a) ==
  IF a < Len(kids) THEN kids[a + 1] ELSE value(pop, a)

\* The individual a tournament draw of index a reads while kids holds the
\* children computed so far: self.value(a), whatever kids is.
TournamentRead(pop, kids, a) == value(pop, a)

\* The parents one mini-tournament can yield: the winner of x1 and x2, each
\* read at an index drawn by gen_range(0..self.ind.len()).
Parents(pop, kids) ==
  {winner(TournamentRead(pop, kids, a), TournamentRead(pop, kids, b)) :
     a \in 0 .. Len(pop) - 1, b \in 0 .. Len(pop) - 1}

\* The children one iteration of tournament's first loop can compute:
\* mutation((dad + mom) / 2.0).
Children(pop, kids) ==
  UNION {{mutation(dad + mom, d) : d \in MutationDraws(dad + mom)} :
           dad \in Parents(pop, kids), mom \in Parents(pop, kids)}

\* tournament's first loop without the arm children.push(best).
RECURSIVE Build_allchildren(_, _, _)
Build_allchildren(pop, kids, bi) ==
  IF Len(kids) >= Len(pop) THEN {kids}
  ELSE UNION {Build_allchildren(pop, Append(kids, child), bi) :
                child \in Children(pop, kids)}

\* tournament's first loop from i = kids.len() on: the vectors children it can
\* end with.
RECURSIVE Build(_, _, _)
Build(pop, kids, bi) ==
  IF Len(kids) >= Len(pop) THEN {kids}
  ELSE IF Len(kids) # bi
       THEN UNION {Build(pop, Append(kids, child), bi) : child \in Children(pop, kids)}
       ELSE Build(pop, Append(kids, value(pop, bi)), bi)

\* tournament's second loop: self.set(i, children[i]) for every i.
Commit(pop, kids) == [k \in 1 .. Len(pop) |-> kids[k]]

\* Population::tournament
tournament ==
  /\ pc = "Select"
  /\ selection = "Tournament"
  /\ \E kids \in Build(ind, <<>>, best_index(ind)) : ind' = Commit(ind, kids)
  /\ generation' = generation + 1
  /\ pre' = ind
  /\ pc' = "Rearrange"
  /\ UNCHANGED <<selection, rearrangement, range, global_best, best, last_best,
                 counter, evals, min_seen, hist, fired_at, call>>

\* --------------------------------------------------------------- Rearrange

\* run, the arm Rearrangement::None.
RearrangeNone ==
  /\ pc = "Rearrange"
  /\ rearrangement = "None"
  /\ pre' = ind
  /\ pc' = "CheckTermination"
  /\ UNCHANGED <<selection, rearrangement, range, ind, generation, global_best,
                 best, last_best, counter, evals, min_seen, hist, fired_at, call>>

\* The multipliers m = k / 2 at which both scaled endpoints are grid points.
Multipliers(r) ==
  {k \in GENOCIDE_MULTIPLIERS : (r[1] * k) % 2 = 0 /\ (r[2] * k) % 2 = 0}

\* genocide scaling only the end of the interval.
ScaledRange_end(r, k) == <<r[1], (r[2] * k) \div 2>>

\* genocide: start..end, the interval scaled by m = k / 2.
ScaledRange(r, k) == <<(r[1] * k) \div 2, (r[2] * k) \div 2>>

\* genocide respawning from self.range as it was before the scaling.
GenocideSpawn_old(old, new) == Samples(old)

\* genocide: the interval the individuals are respawned from.
GenocideSpawn(old, new) == Samples(new)

\* run: the delta condition of the Genocide arm.
Stagnant(b, lb) == b # None /\ lb # None /\ Abs(b[1] - lb[1]) < BEST_DELTA

\* The trigger with counter > COUNTER_GENOCIDE.
Triggers_gt(c) == c > COUNTER_GENOCIDE

\* run: the test that triggers genocide, on the incremented counter.
Triggers(c) == c >= COUNTER_GENOCIDE

\* The Genocide arm without its else branch counter = 0.
CounterAfter_noreset(c, b, lb) ==
  IF b # None /\ lb # None
  THEN IF Abs(b[1] - lb[1]) < BEST_DELTA THEN c + 1 ELSE c
  ELSE c

\* The Genocide arm counting an iteration in which last_best is None.
CounterAfter_first(c, b, lb) ==
  IF b # None /\ lb # None
  THEN IF Abs(b[1] - lb[1]) < BEST_DELTA THEN c + 1 ELSE 0
  ELSE c + 1

\* run: the counter after the Genocide arm when no genocide is triggered.
CounterAfter(c, b, lb) ==
  IF b # None /\ lb # None
  THEN IF Abs(b[1] - lb[1]) < BEST_DELTA THEN c + 1 ELSE 0
  ELSE c

\* The history of the Genocide arm after one more step: the number of
\* consecutive steps, this one included, in which the delta condition held,
\* counted from the start of the run, from the last genocide or from the last
\* step in which the condition failed; and whether this step ran genocide.
Record(h, held, fired) ==
  [streak |-> IF held THEN (IF h.fired THEN 0 ELSE h.streak) + 1 ELSE 0,
   fired |-> fired]

\* run, the arm Rearrangement::Genocide, with Population::genocide.
RearrangeGenocide ==
  /\ pc = "Rearrange"
  /\ rearrangement = "Genocide"
  /\ pre' = ind
  /\ pc' = "CheckTermination"
  /\ IF Stagnant(best, last_best) /\ Triggers(counter + 1)
     THEN /\ \E k \in Multipliers(range) :
               /\ range' = ScaledRange(range, k)
               /\ ind' \in [1 .. Len(ind) -> GenocideSpawn(range, ScaledRange(range, k))]
          /\ best' = None
          /\ last_best' = None
          /\ counter' = 0
          /\ hist' = Record(hist, TRUE, TRUE)
          /\ fired_at' = Append(fired_at, evals)
     ELSE /\ counter' = CounterAfter(counter, best, last_best)
          /\ hist' = Record(hist, Stagnant(best, last_best), FALSE)
          /\ UNCHANGED <<range, ind, best, last_best, fired_at>>
  /\ UNCHANGED <<selection, rearrangement, generation, global_best,
                 evals, min_seen, call>>

\* The index random_predation overwrites.
PredationIndex(pop) == worst_index(pop)

\* run, the arm Rearrangement::RandomPredation: Population::random_predation.
RearrangeRandomPredation ==
  /\ pc = "Rearrange"
  /\ rearrangement = "RandomPredation"
  /\ \E v \in individual : ind' = set(ind, PredationIndex(ind), v)
  /\ pre' = ind
  /\ pc' = "CheckTermination"
  /\ UNCHANGED <<selection, rearrangement, range, generation, global_best,
                 best, last_best, counter, evals, min_seen, hist, fired_at, call>>

\* -------------------------------------------------------- CheckTermination

\* The break with generation >= MAX_GENERATIONS.
ShouldBreak_ge(global, gen) ==
  fitness(global[1]) < FITNESS_TOLERANCE \/ gen >= MAX_GENERATIONS

\* run: the condition of the break.
ShouldBreak(global, gen) ==
  fitness(global[1]) < FITNESS_TOLERANCE \/ gen > MAX_GENERATIONS

\* run, the foot of the loop.
CheckTermination ==
  /\ pc = "CheckTermination"
  /\ pc' = IF ShouldBreak(global_best, generation) THEN "Done" ELSE "Evaluate"
  /\ pre' = <<>>
  /\ UNCHANGED <<selection, rearrangement, range, ind, generation, global_best,
                 best, last_best, counter, evals, min_seen, hist, fired_at, call>>

Next ==
  \/ Evaluate
  \/ elitism
  \/ tournament
  \/ RearrangeNone
  \/ RearrangeGenocide
  \/ RearrangeRandomPredation
  \/ CheckTermination

Spec == Init /\ [][Next]_vars

\* A run on a population of one individual: POPULATION_SIZE = 1.
InitOne ==
  /\ \E e \in Experiments : selection = e[1] /\ rearrangement = e[2]
  /\ range = INITIAL_INTERVAL
  /\ ind \in [1 .. 1 -> individual]
  /\ generation = 0
  /\ global_best = None
  /\ best = None
  /\ last_best = None
  /\ counter = 0
  /\ pc = "Evaluate"
  /\ evals = 0
  /\ pre = <<>>
  /\ min_seen = None
  /\ hist = [streak |-> 0, fired |-> FALSE]
  /\ fired_at = <<>>
  /\ call = NoCall

SpecOne == InitOne /\ [][Next]_vars

\* A longer run on a smaller population: long enough for a second genocide.
LONG_GENERATIONS == 12

LONG_POPULATION == 2

InitLong ==
  /\ \E e \in Experiments : selection = e[1] /\ rearrangement = e[2]
  /\ range = INITIAL_INTERVAL
  /\ ind \in [1 .. LONG_POPULATION -> individual]
  /\ generation = 0
  /\ global_best = None
  /\ best = None
  /\ last_best = None
  /\ counter = 0
  /\ pc = "Evaluate"
  /\ evals = 0
  /\ pre = <<>>
  /\ min_seen = None
  /\ hist = [streak |-> 0, fired |-> FALSE]
  /\ fired_at = <<>>
  /\ call = NoCall

\* run, the foot of the loop, with LONG_GENERATIONS as MAX_GENERATIONS.
CheckTerminationLong ==
  /\ pc = "CheckTermination"
  /\ pc' = IF fitness(global_best[1]) < FITNESS_TOLERANCE \/ generation > LONG_GENERATIONS
           THEN "Done" ELSE "Evaluate"
  /\ pre' = <<>>
  /\ UNCHANGED <<selection, rearrangement, range, ind, generation, global_best,
                 best, last_best, counter, evals, min_seen, hist, fired_at, call>>

NextLong ==
  \/ Evaluate
  \/ elitism
  \/ tournament
  \/ RearrangeNone
  \/ RearrangeGenocide
  \/ RearrangeRandomPredation
  \/ CheckTerminationLong

SpecLong == InitLong /\ [][NextLong]_vars

\* ------------------------------------------------- methods, called directly

\* The methods of Population and the mini-tournament, applied to any
\* population: a Vec of any length up to FN_MAX_LEN, whose f64 values are grid
\* points or NaN.

\* The longest population a method is called on.
FN_MAX_LEN == 3

NaN == [nan |-> TRUE, v |-> 0]

F(v) == [nan |-> FALSE, v |-> v]

\* a < b and a > b on f64: false when either side is NaN.
lt(a, b) == ~a.nan /\ ~b.nan /\ a.v < b.v

gt(a, b) == ~a.nan /\ ~b.nan /\ a.v > b.v

\* Population::fitness on f64: function(NaN).abs() is NaN.
fitness_f64(x) == IF x.nan THEN NaN ELSE F(fitness(x.v))

\* How a call ends: in a panic, or returning x.
Panic == [panic |-> TRUE]

Ret(x) == [panic |-> FALSE, ret |-> x]

\* Vec::get and Vec::get_mut
get(pop, index) == IF index < Len(pop) THEN Some(pop[index + 1]) ELSE None

\* Option::unwrap_or_default in the place of unwrap.
unwrap_or_default(o) == IF o = None THEN Ret(F(0)) ELSE Ret(o[1])

\* Option::unwrap
unwrap(o) == IF o = None THEN Panic ELSE Ret(o[1])

\* Population::value
value_call(pop, index) == unwrap(get(pop, index))

\* Population::set; it returns nothing, ret is the population it leaves.
set_call(pop, index, v) ==
  IF unwrap(get(pop, index)).panic THEN Panic
  ELSE Ret([k \in 1 .. Len(pop) |-> IF k = index + 1 THEN v ELSE pop[k]])

\* The loop of Population::best_index on f64.
RECURSIVE best_scan_f64(_, _, _, _)
best_scan_f64(pop, i, b, index) ==
  IF i >= Len(pop) THEN index
  ELSE LET current == fitness_f64(pop[i + 1]) IN
       IF lt(current, b) THEN best_scan_f64(pop, i + 1, current, i)
       ELSE best_scan_f64(pop, i + 1, b, index)

\* Population::best_index: best = fitness(self.value(0)), then the loop.
best_index_call(pop) ==
  LET first == value_call(pop, 0) IN
  IF first.panic THEN Panic
  ELSE Ret(best_scan_f64(pop, 0, fitness_f64(first.ret), 0))

\* The loop of Population::random_predation on f64.
RECURSIVE worst_scan_f64(_, _, _, _)
worst_scan_f64(pop, i, worst, wi) ==
  IF i >= Len(pop) THEN wi
  ELSE LET current == fitness_f64(pop[i + 1]) IN
       IF gt(current, worst) THEN worst_scan_f64(pop, i + 1, current, i)
       ELSE worst_scan_f64(pop, i + 1, worst, wi)

\* Population::random_predation, v being the individual() drawn.
random_predation_call(pop, v) ==
  LET first == value_call(pop, 0) IN
  IF first.panic THEN Panic
  ELSE set_call(pop, worst_scan_f64(pop, 0, fitness_f64(first.ret), 0), v)

\* The f64 values of the called populations.
FnValues == {NaN} \cup {F(x) : x \in individual}

\* The populations of exactly n individuals.
FnPopulationsOf(n) == [1 .. n -> FnValues]

\* The populations the methods are called on, the empty one included.
FnPopulations == UNION {FnPopulationsOf(n) : n \in 0 .. FN_MAX_LEN}

\* The fields of a Population left alone by a direct call.
RunVars ==
  <<selection, rearrangement, range, ind, generation, global_best, best,
    last_best, counter, pc, evals, pre, min_seen, hist, fired_at>>

\* One population, just constructed, with no call made yet; each behaviour
\* makes one call.
InitFn ==
  /\ Init
  /\ selection = "Elitism"
  /\ rearrangement = "None"
  /\ ind = [k \in 1 .. POPULATION_SIZE |-> INITIAL_INTERVAL[1]]

\* A call of value(index).
CallValue ==
  /\ call = NoCall
  /\ \E pop \in FnPopulations, index \in 0 .. FN_MAX_LEN :
       call' = [op |-> "value", pop |-> pop, index |-> index,
                out |-> value_call(pop, index)]
  /\ UNCHANGED RunVars

\* A call of set(index, v).
CallSet ==
  /\ call = NoCall
  /\ \E pop \in FnPopulations, index \in 0 .. FN_MAX_LEN, v \in FnValues :
       call' = [op |-> "set", pop |-> pop, index |-> index, v |-> v,
                out |-> set_call(pop, index, v)]
  /\ UNCHANGED RunVars

\* A call of best_index().
CallBestIndex ==
  /\ call = NoCall
  /\ \E pop \in FnPopulations :
       call' = [op |-> "best_index", pop |-> pop, out |-> best_index_call(pop)]
  /\ UNCHANGED RunVars

\* A call of random_predation().
CallRandomPredation ==
  /\ call = NoCall
  /\ \E pop \in FnPopulations, v \in {F(x) : x \in individual} :
       call' = [op |-> "random_predation", pop |-> pop, v |-> v,
                out |-> random_predation_call(pop, v)]
  /\ UNCHANGED RunVars

\* One mini-tournament between the drawn x1 and x2.
CallWinner ==
  /\ call = NoCall
  /\ \E x1 \in INITIAL_INTERVAL[1] .. INITIAL_INTERVAL[2] - 1,
        x2 \in INITIAL_INTERVAL[1] .. INITIAL_INTERVAL[2] - 1 :
       call' = [op |-> "winner", x1 |-> x1, x2 |-> x2, out |-> Ret(winner(x1, x2))]
  /\ UNCHANGED RunVars

NextFn ==
  \/ CallValue
  \/ CallSet
  \/ CallBestIndex
  \/ CallRandomPredation
  \/ CallWinner

SpecFn == InitFn /\ [][NextFn]_vars

\* -------------------------------------------------------------- properties

Indices(pop) == 0 .. Len(pop) - 1

\* C1: run begins at most MAX_GENERATIONS + 1 loop iterations, and when it has
\* left the loop after fewer, fitness(global_best) < FITNESS_TOLERANCE.
C1_Termination ==
  /\ evals <= MAX_GENERATIONS + 1
  /\ (pc = "Done" /\ evals < MAX_GENERATIONS + 1)
       => fitness(global_best[1]) < FITNESS_TOLERANCE

\* A run that converged after some generations, before the budget ran out.
C1_Witness ==
  /\ pc = "Done"
  /\ 1 < evals
  /\ evals < MAX_GENERATIONS + 1
  /\ fitness(global_best[1]) < FITNESS_TOLERANCE

\* C2: once global_best is set, no step unsets it or raises its fitness, and
\* a step that changes it is the Evaluate step and lowers its fitness strictly.
C2_GlobalBestMonotone ==
  [][global_best # None =>
       /\ global_best' # None
       /\ fitness(global_best'[1]) <= fitness(global_best[1])
       /\ global_best' # global_best =>
            /\ pc = "Evaluate"
            /\ fitness(global_best'[1]) < fitness(global_best[1])]_vars

\* An Evaluate step after the first has just replaced global_best by a champion
\* strictly fitter than every champion before it.
C2_Witness ==
  /\ pc = "Select"
  /\ evals >= 2
  /\ last_best # None
  /\ global_best = best
  /\ min_seen = Some(fitness(best[1]))
  /\ fitness(best[1]) < fitness(last_best[1])
  /\ rearrangement = "None"

\* C3: the population holds POPULATION_SIZE individuals in every state.
C3_PopulationSize == Len(ind) = POPULATION_SIZE /\ DOMAIN ind = 1 .. POPULATION_SIZE

\* A genocide has respawned the population of a tournament run.
C3_Witness ==
  /\ pc = "CheckTermination"
  /\ selection = "Tournament"
  /\ hist.fired
  /\ ind # pre
  /\ Len(ind) = POPULATION_SIZE

\* The champion of a population: the lowest index of minimal fitness.
Champion(pop) ==
  CHOOSE i \in Indices(pop) :
    /\ \A j \in Indices(pop) : fitness(value(pop, i)) <= fitness(value(pop, j))
    /\ \A j \in 0 .. i - 1 : fitness(value(pop, i)) < fitness(value(pop, j))

\* C4: right after the Select step the champion of the generation before it is
\* at its index with its value.
C4_ChampionPreserved ==
  pc = "Rearrange" => value(ind, Champion(pre)) = value(pre, Champion(pre))

\* A Select step that changed every individual but the champion, which is not
\* at index 0.
C4_Witness ==
  /\ pc = "Rearrange"
  /\ Champion(pre) > 0
  /\ \A i \in Indices(pre) : i # Champion(pre) => value(ind, i) # value(pre, i)
  /\ value(ind, Champion(pre)) = value(pre, Champion(pre))

\* The winners of the mini-tournaments among the individuals of pop.
GenerationParents(pop) ==
  {IF fitness(value(pop, a)) < fitness(value(pop, b)) THEN value(pop, a)
   ELSE value(pop, b) : a \in Indices(pop), b \in Indices(pop)}

\* c is a child of two parents of pop: their mean plus a noise in [-1, 1).
IsChild(c, pop) ==
  \E dad \in GenerationParents(pop), mom \in GenerationParents(pop) :
    -2 <= 2 * c - (dad + mom) /\ 2 * c - (dad + mom) < 2

\* C5: after a tournament every individual but the champion is a child of
\* parents drawn from the generation before the Select step.
C5_ChildrenFromGeneration ==
  (pc = "Rearrange" /\ selection = "Tournament") =>
    \A i \in Indices(pre) :
      i # Champion(pre) => IsChild(value(ind, i), pre)

\* A tournament whose children all differ from the individuals they replace
\* and from each other.
C5_Witness ==
  /\ pc = "Rearrange"
  /\ selection = "Tournament"
  /\ \A i \in Indices(pre) : i # Champion(pre) => value(ind, i) # value(pre, i)
  /\ \A i, j \in Indices(ind) : i # j => value(ind, i) # value(ind, j)

\* The first individual of maximal fitness.
FirstWorst(pop) ==
  CHOOSE i \in Indices(pop) :
    /\ \A j \in Indices(pop) : fitness(value(pop, j)) <= fitness(value(pop, i))
    /\ \A j \in 0 .. i - 1 : fitness(value(pop, j)) < fitness(value(pop, i))

\* C6: after a RandomPredation step every individual but the first of maximal
\* fitness is as before, and that one lies in the initial interval.
C6_PredationFrame ==
  (pc = "CheckTermination" /\ rearrangement = "RandomPredation") =>
    /\ \A i \in Indices(pre) : i # FirstWorst(pre) => value(ind, i) = value(pre, i)
    /\ INITIAL_INTERVAL[1] <= value(ind, FirstWorst(pre))
    /\ value(ind, FirstWorst(pre)) < INITIAL_INTERVAL[2]

\* A predation that replaced the first of two individuals of maximal fitness
\* by another value.
C6_Witness ==
  /\ pc = "CheckTermination"
  /\ rearrangement = "RandomPredation"
  /\ \E j \in Indices(pre) :
       /\ j > FirstWorst(pre)
       /\ fitness(value(pre, j)) = fitness(value(pre, FirstWorst(pre)))
  /\ value(ind, FirstWorst(pre)) # value(pre, FirstWorst(pre))

\* C7: right after a genocide every individual lies in the scaled interval,
\* the counter is 0 and best and last_best are None.
C7_AfterGenocide ==
  (pc = "CheckTermination" /\ hist.fired) =>
    /\ \A i \in Indices(ind) : range[1] <= value(ind, i) /\ value(ind, i) < range[2]
    /\ counter = 0
    /\ best = None
    /\ last_best = None

\* A genocide has narrowed the interval.
C7_Witness ==
  /\ pc = "CheckTermination"
  /\ hist.fired
  /\ range[2] < INITIAL_INTERVAL[2]
  /\ \E i \in Indices(ind) : value(ind, i) # value(pre, i)

C9_CounterReset ==
  (pc = "CheckTermination" /\ rearrangement = "Genocide") =>
    /\ hist.streak = 0 => counter = 0
    /\ last_best = None => counter = 0

\* The delta condition failed on two defined bests after it had held before.
C9_Witness ==
  /\ pc = "CheckTermination"
  /\ rearrangement = "Genocide"
  /\ evals >= 3
  /\ best # None
  /\ last_best # None
  /\ Abs(best[1] - last_best[1]) >= BEST_DELTA
  /\ hist.streak = 0
  /\ counter = 0

\* C10: when best is defined, fitness(global_best) <= fitness(best), and
\* fitness(global_best) is the least fitness of the champions evaluated so far.
C10_GlobalIsMinimum ==
  best # None =>
    /\ global_best # None
    /\ fitness(global_best[1]) <= fitness(best[1])
    /\ min_seen = Some(fitness(global_best[1]))

\* The champion just evaluated is less fit than global_best.
C10_Witness ==
  /\ pc = "Select"
  /\ best # None
  /\ fitness(global_best[1]) < fitness(best[1])

\* C11 as claimed: from the first Evaluate step on, and as long as no genocide
\* has run, best and last_best are both defined.
C11_BothDefinedAfterFirst ==
  (evals >= 1 /\ fired_at = <<>>) => (best # None /\ last_best # None)

\* C11, amended: an Evaluate step defines best, and defines last_best exactly
\* when best was defined before it; any other step leaves both as they are,
\* but for a genocide, which unsets both; without Genocide neither is ever
\* unset again.
C11_BestsDefined ==
  [][/\ pc = "Evaluate" => (best' # None /\ (last_best' # None <=> best # None))
     /\ pc # "Evaluate" =>
          \/ best' = best /\ last_best' = last_best
          \/ /\ pc = "Rearrange" /\ rearrangement = "Genocide" /\ hist'.fired
             /\ best' = None /\ last_best' = None
     /\ (rearrangement # "Genocide" /\ best # None) => best' # None
     /\ (rearrangement # "Genocide" /\ last_best # None) => last_best' # None]_vars

\* The first Evaluate step is done: best is defined, last_best is not.
C11_Witness ==
  /\ pc = "Select"
  /\ evals = 1
  /\ best # None
  /\ last_best = None

\* C12: the interval is the initial one unless the rearrangement is Genocide,
\* and a step that changes it is a Genocide-arm step that runs genocide and
\* multiplies both endpoints by one m = k / 2 of [0.1, 2.0).
C12_RangeOnlyByGenocide ==
  [][/\ rearrangement # "Genocide" =>
          (range = INITIAL_INTERVAL /\ range' = INITIAL_INTERVAL)
     /\ range' # range =>
          /\ pc = "Rearrange"
          /\ rearrangement = "Genocide"
          /\ hist'.fired
          /\ \E k \in GENOCIDE_MULTIPLIERS :
               2 * range'[1] = k * range[1] /\ 2 * range'[2] = k * range[2]]_vars

\* A genocide has widened the interval.
C12_Witness ==
  /\ pc = "CheckTermination"
  /\ hist.fired
  /\ range[1] < INITIAL_INTERVAL[1]
  /\ range[2] > INITIAL_INTERVAL[2]

\* C13: generation is 0 before the first Evaluate step, every Select step adds
\* exactly 1 to it, no other step changes it, and at the termination check it
\* is the number of Evaluate steps done.
C13_GenerationCount ==
  [][/\ generation' = generation + (IF pc = "Select" THEN 1 ELSE 0)
     /\ evals = 0 => generation = 0
     /\ pc = "CheckTermination" => generation = evals]_vars

\* The termination check of an iteration whose rearrangement ran genocide.
C13_Witness ==
  /\ pc = "CheckTermination"
  /\ hist.fired
  /\ generation = evals
  /\ generation > COUNTER_GENOCIDE

\* C14: value and set with an index outside the population, and best_index
\* and random_predation on an empty population, end in a panic.
C14_OutOfRangePanics ==
  /\ (call.op \in {"value", "set"} /\ call.index >= Len(call.pop)) => call.out.panic
  /\ (call.op \in {"best_index", "random_predation"} /\ Len(call.pop) = 0)
       => call.out.panic

\* set was called on a population that is not empty with an index beyond it.
C14_Witness ==
  /\ call.op = "set"
  /\ Len(call.pop) > 0
  /\ call.index >= Len(call.pop)
  /\ call.out.panic

\* C15: with a population of one, both selections complete: the Select step
\* can always be taken, the sole individual is the champion, the step leaves
\* it as it was, tournament computes no child, and generation is incremented.
C15_SoleIndividual ==
  /\ Len(ind) = 1
  /\ pc = "Select" => (best_index(ind) = 0 /\ ENABLED (elitism \/ tournament))
  /\ pc = "Rearrange" =>
       /\ ind = pre
       /\ generation = evals
       /\ best_index(pre) = 0
       /\ selection = "Tournament" => Build(pre, <<>>, 0) = {pre}
       /\ selection = "Elitism" => ElitismValues(pre, 0, 0) = {value(pre, 0)}

\* A tournament has just run on a sole individual that is not a root.
C15_Witness ==
  /\ pc = "Rearrange"
  /\ selection = "Tournament"
  /\ Len(pre) = 1
  /\ fitness(value(pre, 0)) >= FITNESS_TOLERANCE
  /\ generation > 1

\* C16 as stated: the winner of a mini-tournament is the individual of
\* strictly lower fitness, and the first drawn, x1, when the two are equally
\* fit.
C16_TieToFirst ==
  call.op = "winner" =>
    call.out.ret = (IF fitness(call.x2) < fitness(call.x1) THEN call.x2 ELSE call.x1)

\* C16, amended: the winner of a mini-tournament is the individual of
\* strictly lower fitness, and the second drawn, x2, when the two are equally
\* fit.
C16_TieToSecond ==
  call.op = "winner" =>
    /\ ~call.out.panic
    /\ fitness(call.x1) < fitness(call.x2) => call.out.ret = call.x1
    /\ fitness(call.x2) < fitness(call.x1) => call.out.ret = call.x2
    /\ fitness(call.x1) = fitness(call.x2) => call.out.ret = call.x2

\* A mini-tournament between two different individuals of equal fitness.
C16_Witness ==
  /\ call.op = "winner"
  /\ call.x1 # call.x2
  /\ fitness(call.x1) = fitness(call.x2)
  /\ call.out.ret = call.x2

\* C17: on a population that is not empty and holds an individual whose
\* fitness is not NaN, best_index does not return the index of an individual
\* whose fitness is NaN.
C17_NaNNeverBest ==
  (/\ call.op = "best_index"
   /\ Len(call.pop) > 0
   /\ \E k \in 1 .. Len(call.pop) : ~fitness_f64(call.pop[k]).nan)
    => /\ ~call.out.panic
       /\ ~fitness_f64(call.pop[call.out.ret + 1]).nan

\* The minimum fitness over the whole population.
MinFitness(pop) ==
  CHOOSE m \in {fitness(value(pop, i)) : i \in Indices(pop)} :
    \A j \in Indices(pop) : m <= fitness(value(pop, j))

\* C18: best_index returns the smallest index whose fitness equals the
\* minimum fitness over the whole population.
C18_FirstMinimum ==
  LET bi == best_index(ind) IN
  /\ bi \in Indices(ind)
  /\ fitness(value(ind, bi)) = MinFitness(ind)
  /\ \A j \in 0 .. bi - 1 : fitness(value(ind, j)) # MinFitness(ind)

\* Two different individuals share the minimal fitness, the first of them is
\* not at index 0, and best_index has been used by an Evaluate step.
C18_Witness ==
  /\ pc = "Select"
  /\ best_index(ind) > 0
  /\ \E j \in Indices(ind) :
       /\ j > best_index(ind)
       /\ fitness(value(ind, j)) = MinFitness(ind)
       /\ value(ind, j) # value(ind, best_index(ind))
  /\ best = Some(value(ind, best_index(ind)))

\* C19: the counter is in 0 .. COUNTER_GENOCIDE - 1 at the end of every
\* iteration, and is 0 under None and RandomPredation, where no genocide runs;
\* every genocide comes at least COUNTER_GENOCIDE + 1 iterations after the one
\* before it, and the first not before iteration COUNTER_GENOCIDE + 1.
C19_CounterAndSpacing ==
  /\ counter \in 0 .. COUNTER_GENOCIDE - 1
  /\ rearrangement # "Genocide" => (counter = 0 /\ fired_at = <<>>)
  /\ \A i \in 1 .. Len(fired_at) :
       fired_at[i] - (IF i = 1 THEN 0 ELSE fired_at[i - 1]) >= COUNTER_GENOCIDE + 1

\* Two genocides have run, the first as early as it can and the second as soon
\* after the first as it can.
C19_Witness ==
  /\ Len(fired_at) = 2
  /\ fired_at[1] = COUNTER_GENOCIDE + 1
  /\ fired_at[2] = fired_at[1] + COUNTER_GENOCIDE + 1
  /\ pc = "CheckTermination"
  /\ counter = 0

\* C20: global_best changes only at the head of the loop; the steps of an
\* iteration follow in the order Evaluate, Select, Rearrange, break test; the
\* run ends only at the break test, after at least one Select step, with as
\* many Evaluate steps as Select steps and with global_best the fittest of the
\* champions evaluated: the population of the last Select and Rearrange steps
\* is never evaluated.
C20_FinalNotEvaluated ==
  [][/\ global_best' # global_best => (pc = "Evaluate" /\ pc' = "Select")
     /\ pc = "Select" => pc' = "Rearrange"
     /\ pc = "Rearrange" => pc' = "CheckTermination"
     /\ pc # "Done"
     /\ pc' = "Done" =>
          /\ pc = "CheckTermination"
          /\ generation' >= 1
          /\ evals' = generation'
          /\ ind' = ind
          /\ global_best' = global_best
          /\ min_seen' = Some(fitness(global_best'[1]))]_vars

\* The run has ended with a final population whose champion is a root, while
\* global_best is not.
C20_Witness ==
  /\ pc = "Done"
  /\ fitness(value(ind, best_index(ind))) < FITNESS_TOLERANCE
  /\ fitness(global_best[1]) >= FITNESS_TOLERANCE
  /\ generation > MAX_GENERATIONS

====
